---- MODULE Spec2Model ----
(***************************************************************************)
(* Model of tools/update_model_repo.py: the model copier                   *)
(* (copyUpdatedModels), the map updater (updateMapFile) and the command    *)
(* line entry point.                                                       *)
(*                                                                         *)
(* A path is a record [dir, file]: dir is the sequence of directory        *)
(* components from the filesystem root, file is the file name as a         *)
(* sequence of tokens in which every "." is a token of its own             *)
(* (<<"w", ".", "stl">> is w.stl).  A directory exists exactly when it is  *)
(* one of the two roots or holds a file, so os.makedirs leaves no trace of *)
(* its own in the state.  File names and map keys are ASCII, for which a   *)
(* str and the unicode read back from JSON compare and hash alike.         *)
(***************************************************************************)
EXTENDS Integers, Sequences, FiniteSets, TLC

VARIABLES
    fs,          \* the filesystem: absolute path -> [content, mtime]
    mapfile,     \* the map file on disk: [exists, valid, items]
    mapDir,      \* os.path.dirname(os.path.abspath(map_file_path))
    lastOp,      \* history: "env", "copy", "update" or "main"
    preFs,       \* history: fs when the last operation started
    preMap,      \* history: mapfile when the last operation started
    walk,        \* history: the model files in the order the last updater walk met them
    notices,     \* history: what the last operation printed
    outcome,     \* history: "ok" or "parse_failure"
    streak,      \* history: consecutive runs of lastOp with nothing in between
    withSource   \* history: the last program run was given --source-dir

vars == <<fs, mapfile, mapDir, lastOp, preFs, preMap, walk, notices, outcome, streak, withSource>>

----------------------------------------------------------------------------
(* Bounds *)

MaxFiles == 3      \* files the operator keeps under the destination root
MaxStreak == 2     \* cap of the consecutive-run counter

----------------------------------------------------------------------------
(* The two trees and the files the environment may put in them *)

SourceRoot == <<"work", "models">>
DestRoot == <<"repo", "lib">>
MapDirs == {<<"repo", "lib">>, <<"repo", "idx">>}

w_stl == <<"w", ".", "stl">>
w_STL == <<"w", ".", "STL">>
w_Stl == <<"w", ".", "Stl">>
v_stl == <<"v", ".", "stl">>
dot_stl == <<".", "stl">>

CopyRel ==
    { [dir |-> <<>>, file |-> w_stl],
      [dir |-> <<"foo">>, file |-> w_STL],
      [dir |-> <<"foo">>, file |-> w_Stl] }

MapRel ==
    { [dir |-> <<"foo">>, file |-> w_stl],
      [dir |-> <<"foo">>, file |-> w_STL],
      [dir |-> <<"bar">>, file |-> w_STL],
      [dir |-> <<>>, file |-> v_stl],
      [dir |-> <<"foo">>, file |-> w_Stl],
      [dir |-> <<"bar">>, file |-> dot_stl] }

FileData ==
    { [content |-> <<"a">>, mtime |-> 1],
      [content |-> <<"b">>, mtime |-> 1],
      [content |-> <<"a">>, mtime |-> 2],
      [content |-> <<"c", "c">>, mtime |-> 1] }

DefaultData == [content |-> <<"a">>, mtime |-> 1]

At(root, rel) == [dir |-> root \o rel.dir, file |-> rel.file]

EmptyFs == [p \in {} |-> DefaultData]

WriteFile(fsys, p, d) == [q \in DOMAIN fsys \cup {p} |-> IF q = p THEN d ELSE fsys[q]]

RemoveFile(fsys, p) == [q \in DOMAIN fsys \ {p} |-> fsys[q]]

----------------------------------------------------------------------------
(* os.path *)

IsPrefix(a, b) == Len(a) <= Len(b) /\ SubSeq(b, 1, Len(a)) = a

\* os.path.splitext: the extension starts at the last dot, unless only dots
\* come before it.
splitext(filename) ==
    LET dots == {i \in 1..Len(filename) : filename[i] = "."}
        dotIndex == IF dots = {} THEN 0 ELSE CHOOSE i \in dots : \A j \in dots : j <= i
    IN  IF dotIndex > 0 /\ \E k \in 1..(dotIndex - 1) : filename[k] # "."
        THEN <<SubSeq(filename, 1, dotIndex - 1), SubSeq(filename, dotIndex, Len(filename))>>
        ELSE <<filename, <<>>>>

IsModelExtLowerOnly(ext) == ext \in {<<".", "stl">>}

\* ext in ['.stl', '.STL']
IsModelExt(ext) == ext \in {<<".", "stl">>, <<".", "STL">>}

\* os.path.commonprefix on two component lists, as its length
CommonLen(a, b) ==
    CHOOSE i \in 0..Len(a) :
        /\ i <= Len(b)
        /\ SubSeq(a, 1, i) = SubSeq(b, 1, i)
        /\ \A j \in (i + 1)..Len(a) : j <= Len(b) => SubSeq(a, 1, j) # SubSeq(b, 1, j)

\* os.path.relpath on directory component lists: one ".." for every component
\* of start below the common prefix, then the rest of path
RelList(path, start) ==
    LET i == CommonLen(start, path)
    IN  [k \in 1..(Len(start) - i) |-> ".."] \o SubSeq(path, i + 1, Len(path))

\* os.path.relpath(dir, start): "." when nothing is left
relpath(path, start) ==
    IF RelList(path, start) = <<>> THEN <<".">> ELSE RelList(path, start)

\* os.path.normpath, which os.path.abspath applies: "." is dropped and ".."
\* removes the component before it
RECURSIVE normpath(_)
normpath(path) ==
    IF path = <<>> THEN <<>>
    ELSE LET head == normpath(SubSeq(path, 1, Len(path) - 1))
             last == path[Len(path)]
         IN  IF last = "." THEN head
             ELSE IF last = ".." /\ head # <<>> /\ head[Len(head)] # ".."
                  THEN SubSeq(head, 1, Len(head) - 1)
                  ELSE Append(head, last)

----------------------------------------------------------------------------
(* os.walk, top down: the files of a directory in any order, then its      *)
(* subdirectories, each walked completely, in any order                    *)

Perms(S) ==
    {s \in [1..Cardinality(S) -> S] : \A i, j \in 1..Cardinality(S) : i # j => s[i] # s[j]}

FilesIn(fsys, top) == {p \in DOMAIN fsys : p.dir = top}

SubDirs(fsys, top) ==
    {SubSeq(p.dir, 1, Len(top) + 1) : p \in {q \in DOMAIN fsys : IsPrefix(top, q.dir) /\ Len(q.dir) > Len(top)}}

RECURSIVE os_walk(_, _), WalkDirs(_, _)
os_walk(fsys, top) ==
    {files \o below : files \in Perms(FilesIn(fsys, top)), below \in WalkDirs(fsys, SubDirs(fsys, top))}

WalkDirs(fsys, dirs) ==
    IF dirs = {} THEN {<<>>}
    ELSE UNION {{first \o rest : first \in os_walk(fsys, d), rest \in WalkDirs(fsys, dirs \ {d})} : d \in dirs}

IsModelPath(p) == IsModelExt(splitext(p.file)[2])

----------------------------------------------------------------------------
(* copyUpdatedModels *)

\* filecmp.cmp(f1, f2) with its default shallow=1: equal stat signatures
\* (type, size, mtime) settle it, then differing sizes, then the contents
filecmp_cmp(fsys, f1, f2) ==
    LET s1 == <<Len(fsys[f1].content), fsys[f1].mtime>>
        s2 == <<Len(fsys[f2].content), fsys[f2].mtime>>
    IN  IF s1 = s2 THEN TRUE
        ELSE IF s1[1] # s2[1] THEN FALSE
        ELSE fsys[f1].content = fsys[f2].content

\* shutil.copy2: the content and the modification time
shutil_copy2(fsys, from, to) == WriteFile(fsys, to, fsys[from])

DestinationPath(p) ==
    LET destination_sub_dir == relpath(p.dir, SourceRoot)
        destination_abs_dir == normpath(DestRoot \o destination_sub_dir)
    IN  [dir |-> destination_abs_dir, file |-> p.file]

NeedsCopyInverted(fsys, from, to) ==
    (to \notin DOMAIN fsys) \/ filecmp_cmp(fsys, from, to)

NeedsCopy(fsys, from, to) ==
    (to \notin DOMAIN fsys) \/ ~filecmp_cmp(fsys, from, to)

RECURSIVE CopyLoop(_, _, _, _)
CopyLoop(fsys, order, i, printed) ==
    IF i > Len(order) THEN [fs |-> fsys, notices |-> printed]
    ELSE LET p == order[i]
             to == DestinationPath(p)
         IN  IF IsModelPath(p) /\ NeedsCopy(fsys, p, to)
             THEN CopyLoop(shutil_copy2(fsys, p, to), order, i + 1,
                           Append(printed, <<"Copying", splitext(p.file)[1], p>>))
             ELSE CopyLoop(fsys, order, i + 1, printed)

copyUpdatedModels(fsys, order) == CopyLoop(fsys, order, 1, <<>>)

----------------------------------------------------------------------------
(* The map file: json.load and json.dump *)

NoFile == [exists |-> FALSE, valid |-> FALSE, items |-> <<>>]
Malformed == [exists |-> TRUE, valid |-> FALSE, items |-> <<>>]

\* the model names in the order sort_keys=True writes them
KeyOrder == << <<"u">>, <<"v">>, <<"w">> >>

EmptyMap == [k \in {} |-> [filename |-> [dir |-> <<>>, file |-> <<>>]]]

json_load_nothing(mf) == EmptyMap

\* json.load: an object from its items; of a repeated key the last item counts
json_load(mf) ==
    [k \in {mf.items[i][1] : i \in DOMAIN mf.items} |->
        LET last == CHOOSE i \in DOMAIN mf.items :
                        /\ mf.items[i][1] = k
                        /\ \A j \in DOMAIN mf.items : mf.items[j][1] = k => j <= i
        IN  mf.items[last][2]]

\* json.dump(..., sort_keys=True): one item per key, keys ascending
json_dump(component_map) ==
    LET keys == SelectSeq(KeyOrder, LAMBDA k : k \in DOMAIN component_map)
    IN  [exists |-> TRUE, valid |-> TRUE,
         items |-> [i \in DOMAIN keys |-> <<keys[i], component_map[keys[i]]>>]]

ParseFailsNever(mf) == FALSE

\* json.load raises on a file that is not JSON
ParseFails(mf) == mf.exists /\ ~mf.valid

InSeq(x, s) == \E i \in DOMAIN s : s[i] = x

Put(component_map, k, e) ==
    [n \in DOMAIN component_map \cup {k} |-> IF n = k THEN e ELSE component_map[n]]

----------------------------------------------------------------------------
(* updateMapFile *)

\* a second path of a known name is dropped
RecordModelFirstOnly(component_map, model_name, model_file_relpath) ==
    IF model_name \in DOMAIN component_map
    THEN [cm |-> component_map, notice |-> <<>>]
    ELSE [cm |-> Put(component_map, model_name, [filename |-> model_file_relpath]),
          notice |-> <<[text |-> "New model:", model |-> model_name]>>]

\* the path seen last becomes the filename
RecordModelLastWins(component_map, model_name, model_file_relpath) ==
    IF model_name \in DOMAIN component_map
    THEN LET entry == component_map[model_name]
             dupes == IF "duplicates" \in DOMAIN entry THEN entry.duplicates ELSE <<>>
         IN  IF entry.filename # model_file_relpath
             THEN [cm |-> Put(component_map, model_name,
                              [filename |-> model_file_relpath,
                               duplicates |-> IF InSeq(entry.filename, dupes) THEN dupes
                                              ELSE Append(dupes, entry.filename)]),
                   notice |-> <<[text |-> "New duplicate model:", model |-> model_name]>>]
             ELSE [cm |-> component_map, notice |-> <<>>]
    ELSE [cm |-> Put(component_map, model_name, [filename |-> model_file_relpath]),
          notice |-> <<[text |-> "New model:", model |-> model_name]>>]

\* the recorded filename is not compared with the path
RecordModelNoFilenameCheck(component_map, model_name, model_file_relpath) ==
    IF model_name \in DOMAIN component_map
    THEN LET entry == component_map[model_name]
             dupes == IF "duplicates" \in DOMAIN entry THEN entry.duplicates ELSE <<>>
         IN  IF ~InSeq(model_file_relpath, dupes)
             THEN [cm |-> Put(component_map, model_name,
                              [filename |-> entry.filename,
                               duplicates |-> Append(dupes, model_file_relpath)]),
                   notice |-> <<[text |-> "New duplicate model:", model |-> model_name]>>]
             ELSE [cm |-> component_map, notice |-> <<>>]
    ELSE [cm |-> Put(component_map, model_name, [filename |-> model_file_relpath]),
          notice |-> <<[text |-> "New model:", model |-> model_name]>>]

\* the duplicates list is not searched before the append
RecordModelAlwaysAppend(component_map, model_name, model_file_relpath) ==
    IF model_name \in DOMAIN component_map
    THEN LET entry == component_map[model_name]
             dupes == IF "duplicates" \in DOMAIN entry THEN entry.duplicates ELSE <<>>
         IN  IF entry.filename # model_file_relpath
             THEN [cm |-> Put(component_map, model_name,
                              [filename |-> entry.filename,
                               duplicates |-> Append(dupes, model_file_relpath)]),
                   notice |-> <<[text |-> "New duplicate model:", model |-> model_name]>>]
             ELSE [cm |-> component_map, notice |-> <<>>]
    ELSE [cm |-> Put(component_map, model_name, [filename |-> model_file_relpath]),
          notice |-> <<[text |-> "New model:", model |-> model_name]>>]

\* lines 54-62: what one model file does to component_map
RecordModel(component_map, model_name, model_file_relpath) ==
    IF model_name \in DOMAIN component_map
    THEN LET entry == component_map[model_name]
         IN  IF entry.filename # model_file_relpath
             THEN LET dupes == IF "duplicates" \in DOMAIN entry THEN entry.duplicates ELSE <<>>
                  IN  IF ~InSeq(model_file_relpath, dupes)
                      THEN [cm |-> Put(component_map, model_name,
                                       [filename |-> entry.filename,
                                        duplicates |-> Append(dupes, model_file_relpath)]),
                            notice |-> <<[text |-> "New duplicate model:", model |-> model_name]>>]
                      ELSE [cm |-> Put(component_map, model_name,
                                       [filename |-> entry.filename, duplicates |-> dupes]),
                            notice |-> <<>>]
             ELSE [cm |-> component_map, notice |-> <<>>]
    ELSE [cm |-> Put(component_map, model_name, [filename |-> model_file_relpath]),
          notice |-> <<[text |-> "New model:", model |-> model_name]>>]

\* os.path.relpath(model_file_abspath, start=<directory of the map file>)
ModelRelPath(p, start) == [dir |-> RelList(normpath(p.dir), start), file |-> p.file]

RECURSIVE UpdateLoop(_, _, _, _, _)
UpdateLoop(component_map, start, order, i, printed) ==
    IF i > Len(order) THEN [cm |-> component_map, notices |-> printed]
    ELSE LET p == order[i]
             model_name == splitext(p.file)[1]
             step == RecordModel(component_map, model_name, ModelRelPath(p, start))
         IN  IF IsModelPath(p)
             THEN UpdateLoop(step.cm, start, order, i + 1, printed \o step.notice)
             ELSE UpdateLoop(component_map, start, order, i + 1, printed)

\* the whole function: load (or start empty), walk, write back in full
updateMapFile(mf, start, order) ==
    IF ParseFails(mf)
    THEN [mapfile |-> mf, outcome |-> "parse_failure", notices |-> <<>>]
    ELSE LET loaded == IF mf.exists THEN json_load(mf) ELSE EmptyMap
             done == UpdateLoop(loaded, start, order, 1, <<>>)
         IN  [mapfile |-> json_dump(done.cm), outcome |-> "ok", notices |-> done.notices]

----------------------------------------------------------------------------
(* Initial states *)

OldW == [dir |-> <<"old">>, file |-> w_stl]
OldU == [dir |-> <<"old">>, file |-> <<"u", ".", "stl">>]

\* map files an earlier run or the operator may have left
InitMaps ==
    { NoFile,
      json_dump([k \in {<<"w">>} |-> [filename |-> OldW]]),
      json_dump([k \in {<<"u">>} |-> [filename |-> OldU, duplicates |-> <<>>]]) }

\* source trees of a program run
SourceSamples ==
    { EmptyFs,
      WriteFile(EmptyFs, At(SourceRoot, [dir |-> <<"foo">>, file |-> w_STL]),
                [content |-> <<"b">>, mtime |-> 1]),
      WriteFile(WriteFile(EmptyFs, At(SourceRoot, [dir |-> <<>>, file |-> w_stl]), DefaultData),
                At(SourceRoot, [dir |-> <<"bar">>, file |-> v_stl]), DefaultData) }

InitHistory ==
    /\ lastOp = "env"
    /\ preFs = fs
    /\ preMap = mapfile
    /\ walk = <<>>
    /\ notices = <<>>
    /\ outcome = "ok"
    /\ streak = 0
    /\ withSource = FALSE

Init ==
    /\ fs = EmptyFs
    /\ mapfile \in InitMaps
    /\ mapDir \in MapDirs
    /\ InitHistory

InitCopy ==
    /\ fs = EmptyFs
    /\ mapfile = NoFile
    /\ mapDir = <<"repo">>
    /\ InitHistory

InitMain ==
    /\ fs \in SourceSamples
    /\ mapfile \in {NoFile, Malformed}
    /\ mapDir = <<"repo">>
    /\ InitHistory

----------------------------------------------------------------------------
(* The environment: the operator edits the trees and the map file *)

EnvHistory ==
    /\ lastOp' = "env"
    /\ preFs' = fs'
    /\ preMap' = mapfile'
    /\ walk' = <<>>
    /\ notices' = <<>>
    /\ outcome' = "ok"
    /\ streak' = 0
    /\ withSource' = FALSE

DestFiles(fsys) == {p \in DOMAIN fsys : IsPrefix(DestRoot, p.dir)}

WriteSourceFile ==
    \E rel \in CopyRel, d \in FileData :
        /\ fs' = WriteFile(fs, At(SourceRoot, rel), d)
        /\ UNCHANGED <<mapfile, mapDir>>
        /\ EnvHistory

WriteDestFile ==
    \E rel \in CopyRel, d \in FileData :
        /\ fs' = WriteFile(fs, At(DestRoot, rel), d)
        /\ UNCHANGED <<mapfile, mapDir>>
        /\ EnvHistory

AddModelFile ==
    \E rel \in MapRel :
        /\ At(DestRoot, rel) \notin DOMAIN fs
        /\ Cardinality(DestFiles(fs)) < MaxFiles
        /\ fs' = WriteFile(fs, At(DestRoot, rel), DefaultData)
        /\ UNCHANGED <<mapfile, mapDir>>
        /\ EnvHistory

DeleteFile ==
    \E p \in DOMAIN fs :
        /\ fs' = RemoveFile(fs, p)
        /\ UNCHANGED <<mapfile, mapDir>>
        /\ EnvHistory

DeleteMapFile ==
    /\ mapfile.exists
    /\ mapfile' = NoFile
    /\ UNCHANGED <<fs, mapDir>>
    /\ EnvHistory

CorruptMapFile ==
    /\ mapfile # Malformed
    /\ mapfile' = Malformed
    /\ UNCHANGED <<fs, mapDir>>
    /\ EnvHistory

----------------------------------------------------------------------------
(* The operations *)

Bump(op) == IF lastOp = op /\ streak < MaxStreak THEN streak + 1
            ELSE IF lastOp = op THEN streak ELSE 1

\* copyUpdatedModels(source_root, destination_root)
Copier ==
    \E order \in os_walk(fs, SourceRoot) :
        LET done == copyUpdatedModels(fs, order)
        IN  /\ fs' = done.fs
            /\ notices' = done.notices
            /\ lastOp' = "copy"
            /\ preFs' = fs
            /\ preMap' = mapfile
            /\ walk' = <<>>
            /\ outcome' = "ok"
            /\ streak' = Bump("copy")
            /\ withSource' = TRUE
            /\ UNCHANGED <<mapfile, mapDir>>

\* updateMapFile(map_file_path, destination_root)
Updater ==
    \E order \in os_walk(fs, DestRoot) :
        LET done == updateMapFile(mapfile, mapDir, order)
        IN  /\ mapfile' = done.mapfile
            /\ notices' = done.notices
            /\ outcome' = done.outcome
            /\ lastOp' = "update"
            /\ preFs' = fs
            /\ preMap' = mapfile
            /\ walk' = IF done.outcome = "ok" THEN SelectSeq(order, IsModelPath) ELSE <<>>
            /\ streak' = Bump("update")
            /\ withSource' = FALSE
            /\ UNCHANGED <<fs, mapDir>>

\* __main__: the copier when --source-dir is given, then the updater
Main ==
    \E source_root \in BOOLEAN :
        \E order1 \in os_walk(fs, SourceRoot) :
            LET copied == IF source_root THEN copyUpdatedModels(fs, order1)
                          ELSE [fs |-> fs, notices |-> <<>>]
            IN  \E order2 \in os_walk(copied.fs, DestRoot) :
                    LET done == updateMapFile(mapfile, mapDir, order2)
                    IN  /\ fs' = copied.fs
                        /\ mapfile' = done.mapfile
                        /\ notices' = copied.notices \o done.notices
                        /\ outcome' = done.outcome
                        /\ lastOp' = "main"
                        /\ preFs' = fs
                        /\ preMap' = mapfile
                        /\ walk' = IF done.outcome = "ok" THEN SelectSeq(order2, IsModelPath) ELSE <<>>
                        /\ streak' = Bump("main")
                        /\ withSource' = source_root
                        /\ UNCHANGED mapDir

Next == AddModelFile \/ DeleteFile \/ Updater
NextCopy == WriteSourceFile \/ WriteDestFile \/ DeleteFile \/ Copier
NextMain == DeleteFile \/ DeleteMapFile \/ CorruptMapFile \/ Main

Spec == Init /\ [][Next]_vars
SpecCopy == InitCopy /\ [][NextCopy]_vars
SpecMain == InitMain /\ [][NextMain]_vars

----------------------------------------------------------------------------
(* Vocabulary of the properties *)

\* a file whose extension is exactly .stl or .STL
HasModelExtension(file) ==
    /\ Len(file) >= 3
    /\ file[Len(file) - 1] = "."
    /\ file[Len(file)] \in {"stl", "STL"}
    /\ \E i \in 1..(Len(file) - 2) : file[i] # "."

\* the file name without its extension
NameOf(file) == SubSeq(file, 1, Len(file) - 2)

ModelFilesUnder(fsys, root) ==
    {p \in DOMAIN fsys : IsPrefix(root, p.dir) /\ HasModelExtension(p.file)}

\* the destination path at the same relative place as source path p
Mirror(p) ==
    [dir |-> DestRoot \o SubSeq(p.dir, Len(SourceRoot) + 1, Len(p.dir)), file |-> p.file]

\* the path of destination file p as the map records it
Rel(p) == ModelRelPath(p, mapDir)

Keys(mf) == {mf.items[i][1] : i \in DOMAIN mf.items}

Value(mf, k) == mf.items[CHOOSE i \in DOMAIN mf.items : mf.items[i][1] = k][2]

FilenameOf(mf, k) == Value(mf, k).filename

DupesOf(mf, k) ==
    IF "duplicates" \in DOMAIN Value(mf, k) THEN Value(mf, k).duplicates ELSE <<>>

NamesInDest == {NameOf(p.file) : p \in ModelFilesUnder(fs, DestRoot)}

UpdaterDone == lastOp = "update" /\ outcome = "ok"

----------------------------------------------------------------------------
(* Properties of the copier, checked under SpecCopy *)

\* C1: after the copier has run, every model file of the source tree is in the
\* destination tree at the mirrored relative path, with the same content.
C1_MirroredWithSameContent ==
    lastOp = "copy" =>
        \A p \in ModelFilesUnder(fs, SourceRoot) :
            /\ Mirror(p) \in DOMAIN fs
            /\ fs[Mirror(p)].content = fs[p].content

\* C8: a second copier run right after the first, with neither tree touched in
\* between, copies nothing, prints no notice and leaves every file as it was.
C8_CopierIdempotent ==
    (lastOp = "copy" /\ streak >= 2) => (notices = <<>> /\ fs = preFs)

C8_Witness ==
    /\ lastOp = "copy"
    /\ streak >= 2
    /\ \E p \in ModelFilesUnder(fs, SourceRoot) :
        /\ Mirror(p) \in DOMAIN fs
        /\ fs[Mirror(p)].mtime # fs[p].mtime

----------------------------------------------------------------------------
(* Properties of the updater, checked under Spec *)

\* C2: when no map file existed, the keys of the written map are exactly the
\* distinct model names in the destination tree, one item per name.
C2_KeysAreModelNames ==
    (UpdaterDone /\ ~preMap.exists) =>
        /\ Keys(mapfile) = NamesInDest
        /\ Len(mapfile.items) = Cardinality(NamesInDest)

C2_Witness ==
    /\ UpdaterDone
    /\ ~preMap.exists
    /\ Cardinality(NamesInDest) >= 2
    /\ Cardinality(ModelFilesUnder(fs, DestRoot)) > Cardinality(NamesInDest)

\* C3: after the updater has run, every model file of the destination tree is
\* in the written map: its name is a key and its relative path is that key's
\* filename or one of that key's duplicates.
C3_EveryModelFileRecorded ==
    UpdaterDone =>
        \A p \in ModelFilesUnder(fs, DestRoot) :
            /\ NameOf(p.file) \in Keys(mapfile)
            /\ \/ FilenameOf(mapfile, NameOf(p.file)) = Rel(p)
               \/ InSeq(Rel(p), DupesOf(mapfile, NameOf(p.file)))

C3_Witness ==
    /\ UpdaterDone
    /\ preMap.exists
    /\ \E p \in ModelFilesUnder(fs, DestRoot) :
        /\ NameOf(p.file) \in Keys(preMap)
        /\ ~InSeq(Rel(p), DupesOf(preMap, NameOf(p.file)))
        /\ InSeq(Rel(p), DupesOf(mapfile, NameOf(p.file)))

\* C4: in every step, each key of the map file stays a key with the same
\* filename, and its duplicates list only grows at the end.
C4_Step ==
    \A k \in Keys(mapfile) :
        /\ k \in Keys(mapfile')
        /\ FilenameOf(mapfile', k) = FilenameOf(mapfile, k)
        /\ IsPrefix(DupesOf(mapfile, k), DupesOf(mapfile', k))

C4_FilenameNeverChanges == [][C4_Step]_vars

C4_Witness ==
    /\ UpdaterDone
    /\ \E k \in Keys(preMap) :
        /\ DupesOf(preMap, k) # <<>>
        /\ Len(DupesOf(mapfile, k)) > Len(DupesOf(preMap, k))

\* C5 as stated: of two files of the destination tree that share a model name,
\* the one the walk of this run met first is the filename and the other is in
\* duplicates.
C5_FirstInWalkIsFilename ==
    UpdaterDone =>
        \A i, j \in DOMAIN walk :
            (i < j /\ NameOf(walk[i].file) = NameOf(walk[j].file)) =>
                /\ FilenameOf(mapfile, NameOf(walk[i].file)) = Rel(walk[i])
                /\ InSeq(Rel(walk[j]), DupesOf(mapfile, NameOf(walk[j].file)))

FirstInWalk(name) ==
    CHOOSE i \in DOMAIN walk :
        /\ NameOf(walk[i].file) = name
        /\ \A j \in DOMAIN walk : NameOf(walk[j].file) = name => i <= j

Shared(name) ==
    \E i, j \in DOMAIN walk :
        i # j /\ NameOf(walk[i].file) = name /\ NameOf(walk[j].file) = name

\* C5 amended: for a model name that several files of the destination tree
\* share, the filename is the one the loaded map already had or, when the name
\* was no key of the loaded map, the path the walk of this run met first among
\* all files of that name; every other path of that name is in duplicates.
C5_FirstRecordedIsFilename ==
    UpdaterDone =>
        \A name \in {NameOf(walk[i].file) : i \in DOMAIN walk} :
            Shared(name) =>
                /\ name \in Keys(mapfile)
                /\ name \in Keys(preMap) =>
                        FilenameOf(mapfile, name) = FilenameOf(preMap, name)
                /\ name \notin Keys(preMap) =>
                        FilenameOf(mapfile, name) = Rel(walk[FirstInWalk(name)])
                /\ \A j \in DOMAIN walk :
                        (NameOf(walk[j].file) = name /\ Rel(walk[j]) # FilenameOf(mapfile, name))
                            => InSeq(Rel(walk[j]), DupesOf(mapfile, name))

C5_Witness ==
    /\ UpdaterDone
    /\ \E name \in {NameOf(walk[i].file) : i \in DOMAIN walk} :
        /\ name \notin Keys(preMap)
        /\ Cardinality({i \in DOMAIN walk : NameOf(walk[i].file) = name}) >= 3
        /\ Len(DupesOf(mapfile, name)) >= 2

\* C6: every key of the map file as it was loaded is a key of the map written
\* back, and an entry whose name has no model file left in the destination
\* tree is written back with the same filename and the same duplicates.
C6_NeverPrunes ==
    (UpdaterDone /\ preMap.exists) =>
        \A k \in Keys(preMap) :
            /\ k \in Keys(mapfile)
            /\ k \notin NamesInDest => Value(mapfile, k) = Value(preMap, k)

C6_Witness ==
    /\ UpdaterDone
    /\ preMap.exists
    /\ NamesInDest # {}
    /\ \E k \in Keys(preMap) : k \notin NamesInDest /\ DupesOf(preMap, k) # <<>>

\* C9: an updater run right after another, with the destination tree untouched
\* in between, writes back the map file it loaded, whatever the walk order.
C9_UpdaterIdempotent ==
    (UpdaterDone /\ streak >= 2) => mapfile = preMap

C9_Witness ==
    /\ UpdaterDone
    /\ streak >= 2
    /\ \E name \in Keys(mapfile) :
        /\ Shared(name)
        /\ Rel(walk[FirstInWalk(name)]) # FilenameOf(mapfile, name)

\* C10: no duplicates list of the map file holds the same path twice.
C10_NoRepeatedDuplicate ==
    mapfile.valid =>
        \A k \in Keys(mapfile) :
            \A i, j \in DOMAIN DupesOf(mapfile, k) :
                i # j => DupesOf(mapfile, k)[i] # DupesOf(mapfile, k)[j]

C10_Witness ==
    /\ UpdaterDone
    /\ streak >= 2
    /\ \E k \in Keys(mapfile) : Len(DupesOf(mapfile, k)) >= 2

----------------------------------------------------------------------------
(* Properties of the program run, checked under SpecMain *)

\* the run changed the filesystem only by copies of source model files to
\* their mirrored paths
OnlyCopies ==
    /\ DOMAIN preFs \subseteq DOMAIN fs
    /\ \A q \in DOMAIN fs :
        \/ q \in DOMAIN preFs /\ fs[q] = preFs[q]
        \/ \E p \in ModelFilesUnder(preFs, SourceRoot) : q = Mirror(p) /\ fs[q] = preFs[p]

\* C7 as stated: a program run on a malformed map file ends in a parse failure
\* with the map file and the rest of the disk untouched.
C7_FailsBeforeAnyMutation ==
    (lastOp = "main" /\ preMap = Malformed) =>
        /\ outcome = "parse_failure"
        /\ mapfile = preMap
        /\ fs = preFs

\* C7 amended: a program run on a malformed map file ends in a parse failure
\* with the map file untouched; without --source-dir nothing on disk has
\* changed, with --source-dir the copy phase has already made its copies and
\* nothing else has changed.
C7_FailsBeforeMapMutation ==
    (lastOp = "main" /\ preMap = Malformed) =>
        /\ outcome = "parse_failure"
        /\ mapfile = preMap
        /\ ~withSource => fs = preFs
        /\ withSource => OnlyCopies

C7_Witness ==
    /\ lastOp = "main"
    /\ preMap = Malformed
    /\ outcome = "parse_failure"
    /\ withSource
    /\ fs # preFs

====
